---- MODULE Spec2Model ----
(***************************************************************************)
(* Aedesmap.py: one run of the script, from the parsed command line to the *)
(* git push.  The script is a straight line of steps; pc is the step the   *)
(* run is at.  A raise at module level ends the run: pc = "error".         *)
(*                                                                         *)
(* Encodings.  A calendar date is a day number.  A timestamp is <<d, h>>,  *)
(* day d at hour h, and <<>> is NaT.  A command-line string that holds a   *)
(* date is <<"D", d>> ("YYYY-MM-DD") or <<"D", d, h>> (date and time);     *)
(* <<>> is the empty string, <<"x">> a string pandas cannot parse and      *)
(* None the absent option.  A coordinate is a positive number, NA is 0.    *)
(* A text is a sequence of one-character strings; an accented letter is    *)
(* written with its accent spelled out ("e_acute").                        *)
(***************************************************************************)
EXTENDS Integers, Sequences, FiniteSets

\* ---------------------------------------------------------------- bounds
MaxRecs == 2    \* records in the occurrence file
MaxDay  == 2    \* calendar days are 0..MaxDay
MaxN    == 2    \* --ultimos_dias ranges over 0..MaxN

Days  == 0..MaxDay
Hours == {0, 12}

\* ------------------------------------------------------------- encodings
None   == <<"None">>
Given(n) == <<"int", n>>
Unset  == <<"unset">>
NaT    == <<>>
NA     == 0
NaN    == <<"nan">>
NoText == [na |-> TRUE, s |-> <<>>]
Text(s) == [na |-> FALSE, s |-> s]

Range(f) == {f[i] : i \in DOMAIN f}

RECURSIVE SeqSum(_)
SeqSum(s) == IF s = <<>> THEN 0 ELSE Head(s) + SeqSum(Tail(s))

\* ------------------------------------------------------- pandas datetimes
\* pd.to_datetime on one value: a parsed Timestamp, NaT for a null.
Parseable(s) == s = None \/ (Len(s) >= 2 /\ s[1] = "D")

pd_to_datetime(s) ==
    IF s = None THEN NaT
    ELSE IF Len(s) = 2 THEN <<s[2], 0>>
    ELSE <<s[2], s[3]>>

\* Timestamp.normalize(): midnight of the same day.
normalize(t) == IF t = NaT THEN NaT ELSE <<t[1], 0>>

\* Timestamp + timedelta(days = n)
PlusDays(t, n) == IF t = NaT THEN NaT ELSE <<t[1] + n, t[2]>>

\* Series >= Timestamp and Series < Timestamp: NaT compares False.
TsGe(a, b) == a # NaT /\ b # NaT /\ (a[1] > b[1] \/ (a[1] = b[1] /\ a[2] >= b[2]))
TsLt(a, b) == a # NaT /\ b # NaT /\ (a[1] < b[1] \/ (a[1] = b[1] /\ a[2] < b[2]))

\* Series.dt.date >= date: the calendar day of the timestamp, NaT compares False.
DateGe(t, d) == t # NaT /\ t[1] >= d

\* Python truthiness of an optional string: None and "" are false.
Truthy(s) == s # None /\ s # <<>>

\* -------------------------------------------------------- normalize_str
\* unicodedata.normalize("NFKD", c): a letter followed by its combining mark.
NFKD(c) ==
    CASE c = "e_acute" -> <<"e", "combining_acute">>
      [] c = "c_cedilla" -> <<"c", "combining_cedilla">>
      [] OTHER -> <<c>>

\* .encode("ASCII", "ignore"): non-ASCII code points are dropped.
IsASCII(c) == c \notin {"combining_acute", "combining_cedilla", "e_acute", "c_cedilla"}

\* str.upper() on one ASCII character.
Upper(c) ==
    CASE c = "a" -> "A" [] c = "b" -> "B" [] c = "c" -> "C" [] c = "d" -> "D"
      [] c = "e" -> "E" [] c = "g" -> "G" [] c = "i" -> "I" [] c = "l" -> "L"
      [] c = "m" -> "M" [] c = "n" -> "N" [] c = "p" -> "P" [] c = "r" -> "R"
      [] c = "s" -> "S" [] c = "u" -> "U"
      [] OTHER -> c

RECURSIVE Decompose(_)
Decompose(s) == IF s = <<>> THEN <<>> ELSE NFKD(Head(s)) \o Decompose(Tail(s))

RECURSIVE UpperAll(_)
UpperAll(s) == IF s = <<>> THEN <<>> ELSE <<Upper(Head(s))>> \o UpperAll(Tail(s))

normalize_str(s) == UpperAll(SelectSeq(Decompose(s), IsASCII))

\* str.strip(): leading and trailing blanks removed.
RECURSIVE LStrip(_)
LStrip(s) == IF s # <<>> /\ Head(s) = " " THEN LStrip(Tail(s)) ELSE s

RECURSIVE RStrip(_)
RStrip(s) ==
    IF s # <<>> /\ s[Len(s)] = " " THEN RStrip(SubSeq(s, 1, Len(s) - 1)) ELSE s

strip(s) == RStrip(LStrip(s))

\* ---------------------------------------------------------------- inputs
AllColumns == {"Data_interacao", "Doenca_suspeita", "Endereco", "Latitude", "Longitude"}

Rua == Text(<<"R", "u", "a">>)

Row(data, lat, lon, endereco) ==
    [Data_interacao |-> data, Doenca_suspeita |-> "Dengue", Endereco |-> endereco,
     Latitude |-> lat, Longitude |-> lon]

\* Rows that differ in their timestamp: every hour of every day, and a null.
DateRows ==
    {Row(<<"D", d, h>>, 1, 1, Rua) : d \in Days, h \in Hours}
        \cup {Row(None, 1, 1, Rua)}

\* Rows that differ in what the geocoding loop reads.
GeoRows ==
    {Row(<<"D", 1, 0>>, 1, 1, Rua),
     Row(<<"D", 1, 0>>, NA, NA, Rua),
     Row(<<"D", 1, 0>>, NA, NA, Text(<<" ">>)),
     Row(<<"D", 1, 0>>, NA, NA, NoText),
     Row(<<"D", 1, 0>>, 1, NA, Rua),
     Row(<<"D", 1, 0>>, NA, 2, Rua)}

\* Rows that differ in where the occurrence lies; one has no coordinates and
\* one a Data_interacao pandas cannot parse.
AggRows ==
    {Row(<<"D", 1, 0>>, lat, lon, Rua) : lat \in {1, 2}, lon \in {1, 2}}
        \cup {Row(<<"D", 1, 0>>, NA, NA, NoText), Row(<<"x">>, 1, 1, Rua)}

\* A column the file does not have holds nothing.
Blank(cols, r, i) ==
    [idx             |-> i,
     Data_interacao  |-> IF "Data_interacao" \in cols THEN r.Data_interacao ELSE None,
     Doenca_suspeita |-> IF "Doenca_suspeita" \in cols THEN r.Doenca_suspeita ELSE "",
     Endereco        |-> IF "Endereco" \in cols THEN r.Endereco ELSE NoText,
     Latitude        |-> IF "Latitude" \in cols THEN r.Latitude ELSE NA,
     Longitude       |-> IF "Longitude" \in cols THEN r.Longitude ELSE NA]

\* pd.read_json gives the rows a RangeIndex: idx is the row label.
Indexed(cols, rows) ==
    [i \in DOMAIN rows |->
        Blank(cols, rows[i], i - 1)]

Files(colsets, kinds) ==
    {[columns |-> cols, rows |-> Indexed(cols, rows)] :
        cols \in colsets, rows \in UNION {[1..n -> kinds] : n \in 0..MaxRecs}}

\* The occurrence file is a log: the files whose timestamps vary are in the
\* order the interactions were recorded, a null timestamp sorting first.
NotAfter(r1, r2) ==
    \/ r1.Data_interacao = None
    \/ /\ r2.Data_interacao # None
       /\ \/ r1.Data_interacao[2] < r2.Data_interacao[2]
          \/ /\ r1.Data_interacao[2] = r2.Data_interacao[2]
             /\ r1.Data_interacao[3] <= r2.Data_interacao[3]

Chronological(f) ==
    \A i \in DOMAIN f.rows : \A j \in DOMAIN f.rows :
        i < j => NotAfter(f.rows[i], f.rows[j])

LogFiles == {f \in Files({AllColumns}, DateRows) : Chronological(f)}

ColumnSets ==
    {AllColumns} \cup {AllColumns \ {c} : c \in AllColumns}
        \cup {AllColumns \ {"Latitude", "Longitude"}}

\* The command line: --inicio, --fim (strings) and --ultimos_dias (int).
DateStrings ==
    {None, <<>>, <<"x">>, <<"D", 1, 12>>} \cup {<<"D", d>> : d \in Days}

ArgsOf(i, f, n) == [inicio |-> i, fim |-> f, ultimos_dias |-> n]

NoArgs == ArgsOf(None, None, None)

\* Every explicit window, and every --ultimos_dias with each kind of
\* --inicio and --fim beside it.
StringKinds == {None, <<>>, <<"x">>, <<"D", 1>>}

AllArgs ==
    {ArgsOf(i, f, None) : i \in DateStrings, f \in DateStrings}
        \cup {ArgsOf(i, f, Given(k)) : i \in StringKinds, f \in StringKinds,
                                        k \in 0..MaxN}

\* The district shapefile.  A geometry is the set of points whose 0.0001
\* degree buffer intersects the polygon; neighbouring districts share the
\* points on their common border.
Feature(nome, geom) == [ds_nome |-> nome, geometry |-> geom]

Cambuci   == Feature(<<"C", "a", "m", "b", "u", "c", "i">>, {<<1, 1>>, <<2, 1>>})
Liberdade == Feature(<<"L", "I", "B", "E", "R", "D", "A", "D", "E">>, {<<2, 1>>})
Ipiranga  == Feature(<<"I", "p", "i", "r", "a", "n", "g", "a">>, {<<2, 2>>})
Se        == Feature(<<"S", "e_acute">>, {<<1, 2>>, <<2, 1>>})

FullShape == <<Cambuci, Liberdade, Ipiranga, Se>>

ShapeFiles == {FullShape, <<Se, Cambuci>>, <<Se>>}

\* What one geocoder lookup can give: an exception, no result, a location.
GeoLocations == {<<2, 1>>}
GeoOutcomes  == {<<"exception">>, <<"none">>} \cup GeoLocations

Scenarios ==
    (AllArgs \X LogFiles \X {FullShape})
        \cup ({NoArgs} \X Files(ColumnSets, GeoRows) \X {FullShape})
        \cup ({NoArgs} \X Files({AllColumns}, AggRows) \X ShapeFiles)

\* ----------------------------------------------------------------- state
VARIABLES
    pc,                \* the step the run is at
    args,              \* argparse namespace
    json,              \* the occurrence file on disk
    shp,               \* the district shapefile on disk
    df,                \* the occurrence dataframe
    columns,           \* df.columns
    pending,           \* rows the geocoding loop has still to visit
    requests,          \* geocoder calls issued
    sleeps,            \* time.sleep(0.2) calls made
    loc,               \* what the last lookup gave
    hoje,              \* datetime.today().date()
    gdf_bairros,       \* the target districts
    joined,            \* the spatial join
    contagem_bairros,  \* value_counts of the join
    tabela_contagens,  \* the district count table
    total_geral,       \* the total line of the table
    index_html,        \* index.html has been written
    pushed,            \* the commit has been pushed
    erro               \* what the run raised

vars == <<pc, args, json, shp, df, columns, pending, requests, sleeps, loc, hoje,
          gdf_bairros, joined, contagem_bairros, tabela_contagens, total_geral,
          index_html, pushed, erro>>

EmptyDict == [k \in {} |-> 0]

Init ==
    /\ \E sc \in Scenarios : args = sc[1] /\ json = sc[2] /\ shp = sc[3]
    /\ pc = "read_json"
    /\ df = <<>>
    /\ columns = {}
    /\ pending = <<>>
    /\ requests = 0
    /\ sleeps = 0
    /\ loc = Unset
    /\ hoje = Unset
    /\ gdf_bairros = <<>>
    /\ joined = <<>>
    /\ contagem_bairros = EmptyDict
    /\ tabela_contagens = EmptyDict
    /\ total_geral = 0
    /\ index_html = FALSE
    /\ pushed = FALSE
    /\ erro = ""

Raise(msg) == pc' = "error" /\ erro' = msg

\* The messages of the raises.
EnderecoError   == "Coluna 'Endereco' nao encontrada no JSON de ocorrencias."
DataError       == "Nao encontrei a coluna 'Data_interacao' no JSON de ocorrencias."
ToDatetimeError == "pd.to_datetime(df['Data_interacao'])"
InicioError     == "Parametro --inicio deve estar no formato YYYY-MM-DD."
FimError        == "Parametro --fim deve estar no formato YYYY-MM-DD."
DoencaError     == "KeyError: 'Doenca_suspeita'"
HeatMapError    == "ValueError: NaN location"

\* ------------------------------------------------------- 1. read the file
ReadJson ==
    /\ pc = "read_json"
    /\ df' = json.rows
    /\ columns' = json.columns
    /\ pc' = "check_endereco"
    /\ UNCHANGED <<args, json, shp, pending, requests, sleeps, loc, hoje, gdf_bairros,
                   joined, contagem_bairros, tabela_contagens, total_geral,
                   index_html, pushed, erro>>

\* ------------------------------------------------------- 1a. geocoding
EnderecoMissing ==
    /\ pc = "check_endereco"
    /\ "Endereco" \notin columns
    /\ Raise(EnderecoError)
    /\ UNCHANGED <<args, json, shp, df, columns, pending, requests, sleeps, loc, hoje,
                   gdf_bairros, joined, contagem_bairros, tabela_contagens,
                   total_geral, index_html, pushed>>

\* df["Latitude"] = pd.NA when the column is absent, the same for Longitude.
AddCoordinateColumns(d, cols) ==
    [i \in DOMAIN d |->
        [d[i] EXCEPT !.Latitude  = IF "Latitude" \in cols THEN @ ELSE NA,
                     !.Longitude = IF "Longitude" \in cols THEN @ ELSE NA]]

\* Variant: the loop visits every row.
MissingCoordinate_Always(r) == TRUE

\* df[df["Latitude"].isna() | df["Longitude"].isna()]
MissingCoordinate(r) == r.Latitude = NA \/ r.Longitude = NA

StartGeocode ==
    /\ pc = "check_endereco"
    /\ "Endereco" \in columns
    /\ df' = AddCoordinateColumns(df, columns)
    /\ columns' = columns \cup {"Latitude", "Longitude"}
    /\ pending' = SelectSeq(df', MissingCoordinate)
    /\ pc' = "geocode"
    /\ UNCHANGED <<args, json, shp, requests, sleeps, loc, hoje, gdf_bairros, joined,
                   contagem_bairros, tabela_contagens, total_geral, index_html,
                   pushed, erro>>

\* pd.isna(endereco) or endereco.strip() == ""
NoAddress(endereco) == endereco.na \/ strip(endereco.s) = <<>>

GeocodeSkip ==
    /\ pc = "geocode"
    /\ pending # <<>>
    /\ NoAddress(Head(pending).Endereco)
    /\ pending' = Tail(pending)
    /\ UNCHANGED <<pc, args, json, shp, df, columns, requests, sleeps, loc, hoje,
                   gdf_bairros, joined, contagem_bairros, tabela_contagens,
                   total_geral, index_html, pushed, erro>>

\* try: loc = geocode(endereco) / except Exception: loc = None
Located(outcome) == outcome \in GeoLocations

\* df.at[idx, "Latitude"] = loc.latitude; df.at[idx, "Longitude"] = loc.longitude
SetCoordinates(d, idx, found) ==
    [i \in DOMAIN d |->
        IF d[i].idx = idx
        THEN [d[i] EXCEPT !.Latitude = found[1], !.Longitude = found[2]]
        ELSE d[i]]

\* Variant: the sleep sits inside "if loc:".
SleepsOnlyWhenFound(n, outcome) == IF Located(outcome) THEN n + 1 ELSE n

\* time.sleep(0.2) closes the loop body, whatever the lookup gave.
SleepsAfter(n, outcome) == n + 1

Geocode ==
    /\ pc = "geocode"
    /\ pending # <<>>
    /\ ~NoAddress(Head(pending).Endereco)
    /\ \E outcome \in GeoOutcomes :
        /\ requests' = requests + 1
        /\ loc' = IF Located(outcome) THEN outcome ELSE None
        /\ df' = IF Located(outcome)
                 THEN SetCoordinates(df, Head(pending).idx, outcome)
                 ELSE df
        /\ sleeps' = SleepsAfter(sleeps, outcome)
    /\ pending' = Tail(pending)
    /\ UNCHANGED <<pc, args, json, shp, columns, hoje, gdf_bairros, joined,
                   contagem_bairros, tabela_contagens, total_geral, index_html,
                   pushed, erro>>

\* ------------------------------------------------------- 1b. Data_interacao
DataInteracaoMissing ==
    /\ pc = "geocode"
    /\ pending = <<>>
    /\ "Data_interacao" \notin columns
    /\ Raise(DataError)
    /\ UNCHANGED <<args, json, shp, df, columns, pending, requests, sleeps, loc, hoje,
                   gdf_bairros, joined, contagem_bairros, tabela_contagens,
                   total_geral, index_html, pushed>>

AllParseable(d) == \A i \in DOMAIN d : Parseable(d[i].Data_interacao)

DataInteracaoUnparseable ==
    /\ pc = "geocode"
    /\ pending = <<>>
    /\ "Data_interacao" \in columns
    /\ ~AllParseable(df)
    /\ Raise(ToDatetimeError)
    /\ UNCHANGED <<args, json, shp, df, columns, pending, requests, sleeps, loc, hoje,
                   gdf_bairros, joined, contagem_bairros, tabela_contagens,
                   total_geral, index_html, pushed>>

ConvertDates ==
    /\ pc = "geocode"
    /\ pending = <<>>
    /\ "Data_interacao" \in columns
    /\ AllParseable(df)
    /\ df' = [i \in DOMAIN df |->
                [df[i] EXCEPT !.Data_interacao = pd_to_datetime(@)]]
    /\ pc' = "filter"
    /\ UNCHANGED <<args, json, shp, columns, pending, requests, sleeps, loc, hoje,
                   gdf_bairros, joined, contagem_bairros, tabela_contagens,
                   total_geral, index_html, pushed, erro>>

\* ------------------------------------------------------- 2. period filter
\* Variant: "if args.ultimos_dias:", which takes 0 for an absent option.
UsesUltimosDias_Truthy(a) == a.ultimos_dias # None /\ a.ultimos_dias[2] # 0

\* if args.ultimos_dias is not None
UsesUltimosDias(a) == a.ultimos_dias # None

\* inicio_data = hoje - timedelta(days = args.ultimos_dias - 1)
inicio_data(h, n) == h - (n - 1)

\* df[df["Data_interacao"].dt.date >= inicio_data]
LastDays(d, h, n) ==
    SelectSeq(d, LAMBDA r : DateGe(r.Data_interacao, inicio_data(h, n)))

FilterUltimosDias ==
    /\ pc = "filter"
    /\ UsesUltimosDias(args)
    /\ \E h \in Days :
        /\ hoje' = h
        /\ df' = LastDays(df, h, args.ultimos_dias[2])
    /\ pc' = "read_shapes"
    /\ UNCHANGED <<args, json, shp, columns, pending, requests, sleeps, loc, gdf_bairros,
                   joined, contagem_bairros, tabela_contagens, total_geral,
                   index_html, pushed, erro>>

\* pd.to_datetime(args.inicio).normalize()
dt_inicio(a) == normalize(pd_to_datetime(a.inicio))

\* Variant: the day after --fim is not added.
dt_fim_SameDay(a) == normalize(pd_to_datetime(a.fim))

\* pd.to_datetime(args.fim).normalize() + timedelta(days=1)
dt_fim(a) == PlusDays(normalize(pd_to_datetime(a.fim)), 1)

\* if args.inicio: df = df[df["Data_interacao"] >= dt_inicio]
FromInicio(d, a) ==
    IF Truthy(a.inicio)
    THEN SelectSeq(d, LAMBDA r : TsGe(r.Data_interacao, dt_inicio(a)))
    ELSE d

\* if args.fim: df = df[df["Data_interacao"] < dt_fim]
UntilFim(d, a) ==
    IF Truthy(a.fim)
    THEN SelectSeq(d, LAMBDA r : TsLt(r.Data_interacao, dt_fim(a)))
    ELSE d

InicioInvalid ==
    /\ pc = "filter"
    /\ ~UsesUltimosDias(args)
    /\ Truthy(args.inicio)
    /\ ~Parseable(args.inicio)
    /\ Raise(InicioError)
    /\ UNCHANGED <<args, json, shp, df, columns, pending, requests, sleeps, loc, hoje,
                   gdf_bairros, joined, contagem_bairros, tabela_contagens,
                   total_geral, index_html, pushed>>

\* --inicio has been applied when --fim is parsed.
FimInvalid ==
    /\ pc = "filter"
    /\ ~UsesUltimosDias(args)
    /\ Truthy(args.inicio) => Parseable(args.inicio)
    /\ Truthy(args.fim)
    /\ ~Parseable(args.fim)
    /\ df' = FromInicio(df, args)
    /\ Raise(FimError)
    /\ UNCHANGED <<args, json, shp, columns, pending, requests, sleeps, loc, hoje,
                   gdf_bairros, joined, contagem_bairros, tabela_contagens,
                   total_geral, index_html, pushed>>

FilterInicioFim ==
    /\ pc = "filter"
    /\ ~UsesUltimosDias(args)
    /\ Truthy(args.inicio) => Parseable(args.inicio)
    /\ Truthy(args.fim) => Parseable(args.fim)
    /\ df' = UntilFim(FromInicio(df, args), args)
    /\ pc' = "read_shapes"
    /\ UNCHANGED <<args, json, shp, columns, pending, requests, sleeps, loc, hoje,
                   gdf_bairros, joined, contagem_bairros, tabela_contagens,
                   total_geral, index_html, pushed, erro>>

\* ------------------------------------------------------- 4. districts
CAMBUCI   == <<"C", "A", "M", "B", "U", "C", "I">>
LIBERDADE == <<"L", "I", "B", "E", "R", "D", "A", "D", "E">>
IPIRANGA  == <<"I", "P", "I", "R", "A", "N", "G", "A">>

TARGETS == <<CAMBUCI, LIBERDADE, IPIRANGA>>

\* gdf_dst_full[ds_nome_norm.isin(TARGETS)], ds_nome_norm renamed to bairro.
IsTarget(f) == normalize_str(f.ds_nome) \in Range(TARGETS)

TargetDistricts(g) ==
    LET kept == SelectSeq(g, IsTarget)
    IN  [i \in DOMAIN kept |->
            [bairro |-> normalize_str(kept[i].ds_nome), geometry |-> kept[i].geometry]]

ReadShapes ==
    /\ pc = "read_shapes"
    /\ gdf_bairros' = TargetDistricts(shp)
    /\ pc' = "map"
    /\ UNCHANGED <<args, json, shp, df, columns, pending, requests, sleeps, loc, hoje,
                   joined, contagem_bairros, tabela_contagens, total_geral,
                   index_html, pushed, erro>>

\* ------------------------------------------------------- 5-7. the map
\* df.groupby("Doenca_suspeita") raises KeyError without the column.
DoencaMissing ==
    /\ pc = "map"
    /\ "Doenca_suspeita" \notin columns
    /\ Raise(DoencaError)
    /\ UNCHANGED <<args, json, shp, df, columns, pending, requests, sleeps, loc, hoje,
                   gdf_bairros, joined, contagem_bairros, tabela_contagens,
                   total_geral, index_html, pushed>>

\* HeatMap is handed every kept row's coordinates, NaN included; folium
\* releases differ in what they make of a NaN location, so the step may
\* raise or go on.
HeatMapRejectsNaN ==
    /\ pc = "map"
    /\ "Doenca_suspeita" \in columns
    /\ \E i \in DOMAIN df : MissingCoordinate(df[i])
    /\ Raise(HeatMapError)
    /\ UNCHANGED <<args, json, shp, df, columns, pending, requests, sleeps, loc, hoje,
                   gdf_bairros, joined, contagem_bairros, tabela_contagens,
                   total_geral, index_html, pushed>>

RenderMap ==
    /\ pc = "map"
    /\ "Doenca_suspeita" \in columns
    /\ pc' = "count"
    /\ UNCHANGED <<args, json, shp, df, columns, pending, requests, sleeps, loc, hoje,
                   gdf_bairros, joined, contagem_bairros, tabela_contagens,
                   total_geral, index_html, pushed, erro>>

\* ------------------------------------------------------- 8. counts
\* Variant: a point without coordinates matches every polygon.
Intersects_NaNMatches(r, f) ==
    MissingCoordinate(r) \/ <<r.Latitude, r.Longitude>> \in f.geometry

\* predicate="intersects" on the buffered point; a NaN coordinate lies in
\* no geometry.
Intersects(r, f) == <<r.Latitude, r.Longitude>> \in f.geometry

\* Variant: the join keeps the first intersecting district only.
JoinRows_FirstHit(r, g) ==
    LET hit == SelectSeq(g, LAMBDA f : <<r.Latitude, r.Longitude>> \in f.geometry)
    IN  <<[idx |-> r.idx, bairro |-> IF hit = <<>> THEN NaN ELSE hit[1].bairro]>>

\* how="left": one row per intersecting district, one NaN row without any.
JoinRows(r, g) ==
    LET hit == SelectSeq(g, LAMBDA f : Intersects(r, f))
    IN  IF hit = <<>>
        THEN <<[idx |-> r.idx, bairro |-> NaN]>>
        ELSE [k \in DOMAIN hit |-> [idx |-> r.idx, bairro |-> hit[k].bairro]]

RECURSIVE sjoin(_, _)
sjoin(d, g) == IF d = <<>> THEN <<>> ELSE JoinRows(Head(d), g) \o sjoin(Tail(d), g)

\* joined["bairro"].value_counts(dropna=False).to_dict()
value_counts(j) ==
    [b \in {j[k].bairro : k \in DOMAIN j} |->
        Cardinality({k \in DOMAIN j : j[k].bairro = b})]

\* Variant: the table is the raw value_counts dictionary.
Tabela_AllBuckets(contagem) == contagem

\* for b in TARGETS: tabela_contagens[b] = int(contagem_bairros.get(b, 0))
Tabela(contagem) ==
    [b \in Range(TARGETS) |-> IF b \in DOMAIN contagem THEN contagem[b] ELSE 0]

CountDistricts ==
    /\ pc = "count"
    /\ joined' = IF df # <<>> THEN sjoin(df, gdf_bairros) ELSE <<>>
    /\ contagem_bairros' = IF df # <<>> THEN value_counts(joined') ELSE EmptyDict
    /\ tabela_contagens' = Tabela(contagem_bairros')
    /\ pc' = "table"
    /\ UNCHANGED <<args, json, shp, df, columns, pending, requests, sleeps, loc, hoje,
                   gdf_bairros, total_geral, index_html, pushed, erro>>

\* ------------------------------------------------------- 9. the table
\* sum(tabela_contagens.values())
TotalGeral(tabela) ==
    LET keys == SelectSeq(TARGETS, LAMBDA b : b \in DOMAIN tabela)
    IN  SeqSum([i \in DOMAIN keys |-> tabela[keys[i]]])

BuildTable ==
    /\ pc = "table"
    /\ total_geral' = TotalGeral(tabela_contagens)
    /\ pc' = "save"
    /\ UNCHANGED <<args, json, shp, df, columns, pending, requests, sleeps, loc, hoje,
                   gdf_bairros, joined, contagem_bairros, tabela_contagens,
                   index_html, pushed, erro>>

\* ------------------------------------------------------- 10-11. output
Save ==
    /\ pc = "save"
    /\ index_html' = TRUE
    /\ pc' = "push"
    /\ UNCHANGED <<args, json, shp, df, columns, pending, requests, sleeps, loc, hoje,
                   gdf_bairros, joined, contagem_bairros, tabela_contagens,
                   total_geral, pushed, erro>>

Push ==
    /\ pc = "push"
    /\ pushed' = TRUE
    /\ pc' = "done"
    /\ UNCHANGED <<args, json, shp, df, columns, pending, requests, sleeps, loc, hoje,
                   gdf_bairros, joined, contagem_bairros, tabela_contagens,
                   total_geral, index_html, erro>>

Next ==
    \/ ReadJson
    \/ EnderecoMissing
    \/ StartGeocode
    \/ GeocodeSkip
    \/ Geocode
    \/ DataInteracaoMissing
    \/ DataInteracaoUnparseable
    \/ ConvertDates
    \/ FilterUltimosDias
    \/ InicioInvalid
    \/ FimInvalid
    \/ FilterInicioFim
    \/ ReadShapes
    \/ DoencaMissing
    \/ HeatMapRejectsNaN
    \/ RenderMap
    \/ CountDistricts
    \/ BuildTable
    \/ Save
    \/ Push

Spec == Init /\ [][Next]_vars

\* ======================================================================
\* Properties
\* ======================================================================
Ids(d) == {d[i].idx : i \in DOMAIN d}

\* The rows of the file, and the timestamp pandas reads from one.
FileRows == Range(json.rows)
Stamp(r) == pd_to_datetime(r.Data_interacao)

\* The period filter has run and the script has gone on.
Filtered == pc \in {"read_shapes", "map", "count", "table", "save", "push", "done"}

\* The district table has been built; the total has been computed.
Counted == pc \in {"table", "save", "push", "done"}
Totalled == pc \in {"save", "push", "done"}

\* A string that holds a date; a string given for a date that holds none.
IsDateString(s) == Len(s) >= 2 /\ s[1] = "D"
Malformed(s) == s # None /\ ~IsDateString(s)

\* ---------------------------------------------------------------- C1
\* C1: with --ultimos_dias N, N >= 1, the rows kept are exactly those whose
\* calendar date d has hoje-(N-1) <= d <= hoje; a row dated after hoje is
\* dropped.
C1_LastDaysWindowEndsToday ==
    (Filtered /\ args.ultimos_dias # None /\ args.ultimos_dias[2] >= 1) =>
        Ids(df) = {r.idx : r \in {x \in FileRows :
                        /\ Stamp(x) # NaT
                        /\ hoje - (args.ultimos_dias[2] - 1) <= Stamp(x)[1]
                        /\ Stamp(x)[1] <= hoje}}

\* ---------------------------------------------------------------- C2
\* C2: with --ultimos_dias given, --inicio and --fim are never read: no
\* date-format error is raised whatever they hold, and the rows kept are
\* decided by the file, hoje and N alone.
C2_UltimosDiasIgnoresInicioFim ==
    args.ultimos_dias # None =>
        /\ erro \notin {InicioError, FimError}
        /\ Filtered =>
            Ids(df) = {r.idx : r \in {x \in FileRows :
                            /\ Stamp(x) # NaT
                            /\ Stamp(x)[1] >= hoje - (args.ultimos_dias[2] - 1)}}

\* A run with --ultimos_dias and a malformed --inicio that ends with some
\* rows kept and some dropped.
C2_Witness ==
    /\ pc = "done"
    /\ args.ultimos_dias # None
    /\ args.inicio = <<"x">>
    /\ args.fim = <<"D", 1>>
    /\ df # <<>>
    /\ Len(df) < Len(json.rows)

\* ---------------------------------------------------------------- C3
\* C3: without --ultimos_dias, a row is kept iff its timestamp is at or after
\* midnight of --inicio (when given) and before midnight of the day after
\* --fim (when given): every hour of the --fim day is in, the next day is
\* out, and either bound may come alone.
C3_ExplicitWindow ==
    (Filtered /\ args.ultimos_dias = None) =>
        Ids(df) = {r.idx : r \in {x \in FileRows :
                        /\ IsDateString(args.inicio) =>
                              (Stamp(x) # NaT /\ Stamp(x)[1] >= args.inicio[2])
                        /\ IsDateString(args.fim) =>
                              (Stamp(x) # NaT /\ Stamp(x)[1] <= args.fim[2])}}

\* A window with both bounds: a row at noon of the --fim day is kept and a
\* row of the next day is dropped.
C3_Witness ==
    /\ pc = "done"
    /\ args.ultimos_dias = None
    /\ args.inicio = <<"D", 1, 12>>
    /\ args.fim = <<"D", 1>>
    /\ Len(df) = 1
    /\ df[1].Data_interacao = <<1, 12>>
    /\ \E r \in FileRows : Stamp(r) = <<2, 0>>

\* ---------------------------------------------------------------- C4
\* C4: the district table has exactly CAMBUCI, LIBERDADE and IPIRANGA as
\* keys, each with a count in Nat; the total is the sum of the three; with
\* no row left after the filter every count and the total are zero.
C4_TableHasExactlyTheTargets ==
    /\ Counted =>
        /\ DOMAIN tabela_contagens = {CAMBUCI, LIBERDADE, IPIRANGA}
        /\ \A b \in DOMAIN tabela_contagens : tabela_contagens[b] \in Nat
        /\ df = <<>> => \A b \in DOMAIN tabela_contagens : tabela_contagens[b] = 0
    /\ Totalled =>
        /\ total_geral = tabela_contagens[CAMBUCI] + tabela_contagens[LIBERDADE]
                            + tabela_contagens[IPIRANGA]
        /\ df = <<>> => total_geral = 0

\* A table built from a join that has a no-match row and a target match, with
\* a district of the shapefile outside the allow-list.
C4_Witness ==
    /\ pc = "done"
    /\ NaN \in DOMAIN contagem_bairros
    /\ tabela_contagens[CAMBUCI] = 1
    /\ tabela_contagens[IPIRANGA] = 0
    /\ \E i \in DOMAIN shp : ~IsTarget(shp[i])

\* ---------------------------------------------------------------- C5
\* C5: a file without Data_interacao, Doenca_suspeita or Endereco fails
\* before any processing: no geocoder request is issued, no row is changed,
\* nothing is written or pushed.
C5_MissingColumnFailsFirst ==
    ({"Data_interacao", "Doenca_suspeita", "Endereco"} \ json.columns # {}) =>
        /\ requests = 0
        /\ df \in {<<>>, json.rows}
        /\ ~index_html
        /\ ~pushed

\* ---------------------------------------------------------------- C6
\* C6: without --ultimos_dias, a malformed --inicio or --fim ends the run in
\* an error that names the parameter, before index.html is written and
\* before anything is pushed.
C6_MalformedDateIsFatal ==
    (args.ultimos_dias = None /\ (Malformed(args.inicio) \/ Malformed(args.fim))) =>
        /\ ~Filtered
        /\ ~index_html
        /\ ~pushed
        /\ erro \in {InicioError, FimError} =>
              erro = IF Malformed(args.inicio) THEN InicioError ELSE FimError

\* ---------------------------------------------------------------- C7
\* C7: a lookup that raises or finds nothing leaves every row as it was, is
\* followed by the sleep, and leaves the run in the loop at the next row;
\* the loop itself never ends the run in an error, only the Data_interacao
\* checks that follow it can.
C7_FailedLookupStep ==
    (requests' = requests + 1 /\ loc' = None) =>
        /\ df' = df
        /\ sleeps' = sleeps + 1
        /\ pending' = Tail(pending)
        /\ pc' = "geocode"
        /\ erro' = erro

C7_LoopNeverAborts ==
    (pc = "geocode" /\ pc' # "geocode") =>
        /\ pending = <<>>
        /\ pc' = "filter" \/ (pc' = "error" /\ erro' \in {DataError, ToDatetimeError})

Hits(r) == {k \in DOMAIN gdf_bairros : <<r.Latitude, r.Longitude>> \in gdf_bairros[k].geometry}

Resolved(d) == {i \in DOMAIN d : d[i].Latitude # NA /\ d[i].Longitude # NA}

\* C8: when no kept row intersects more than one target district, the counts
\* of the table add up to at most the number of kept rows with both
\* coordinates known.
C8_CountsBoundedByResolved ==
    (Counted /\ \A i \in DOMAIN df : Cardinality(Hits(df[i])) <= 1) =>
        tabela_contagens[CAMBUCI] + tabela_contagens[LIBERDADE]
            + tabela_contagens[IPIRANGA] <= Cardinality(Resolved(df))

\* A table over a row without coordinates, a row in one target district and
\* nothing else.
C8_Witness ==
    /\ pc = "done"
    /\ Len(df) = 2
    /\ Cardinality(Resolved(df)) = 1
    /\ \A i \in DOMAIN df : Cardinality(Hits(df[i])) <= 1
    /\ total_geral = 1

\* ---------------------------------------------------------------- C9
\* C9 as stated: whenever a kept row intersects two or more target
\* districts, the total exceeds the number of kept rows.
C9_TotalExceedsOccurrences ==
    (Totalled /\ \E i \in DOMAIN df : Cardinality(Hits(df[i])) >= 2) =>
        total_geral > Len(df)

\* C9 amended: the join is a left join that is not deduplicated: every kept
\* row has a joined row, a row intersecting no target district has exactly
\* one, in the no-match bucket, which is no key of the table; a row
\* intersecting k target districts adds 1 to each of them, so the total is
\* the sum of the k, and once some k >= 2 it exceeds the number of rows that
\* intersect a target district.
C9_LeftJoinNotDeduplicated ==
    (Counted /\ df # <<>>) =>
        /\ \A i \in DOMAIN df :
            LET mine == {k \in DOMAIN joined : joined[k].idx = df[i].idx}
            IN  /\ mine # {}
                /\ Hits(df[i]) = {} =>
                      (Cardinality(mine) = 1 /\ \A k \in mine : joined[k].bairro = NaN)
                /\ Hits(df[i]) # {} => Cardinality(mine) = Cardinality(Hits(df[i]))
        /\ NaN \notin DOMAIN tabela_contagens
        /\ \A b \in DOMAIN tabela_contagens :
            tabela_contagens[b] =
                Cardinality({<<i, k>> \in (DOMAIN df) \X (DOMAIN gdf_bairros) :
                                k \in Hits(df[i]) /\ gdf_bairros[k].bairro = b})
        /\ (Totalled /\ \E i \in DOMAIN df : Cardinality(Hits(df[i])) >= 2) =>
              total_geral > Cardinality({i \in DOMAIN df : Hits(df[i]) # {}})

\* Two rows, one on the border of two target districts and one in none: the
\* border row counts twice, the other not at all.
C9_Witness ==
    /\ pc = "done"
    /\ Len(df) = 2
    /\ \E i \in DOMAIN df : Cardinality(Hits(df[i])) = 2
    /\ \E i \in DOMAIN df : Hits(df[i]) = {}
    /\ total_geral = 2

\* ---------------------------------------------------------------- C10
\* The row of the file that a row of df comes from.
Original(r) == CHOOSE x \in FileRows : x.idx = r.idx

====
